---- MODULE Spec2Model ----
(***************************************************************************)
(* Model of packages/indexer-service/src/commands/start.ts: the `start`    *)
(* command handler (database connection, state-channel construction, free  *)
(* balance query, unlock-event subscription, status server) and the echo   *)
(* responder it registers (delayed transfer back to the sender).           *)
(*                                                                         *)
(* Amounts are decimal digit sequences, so that 10^18 wei is representable *)
(* and toBN / formatEther are modelled by what they compute.               *)
(*                                                                         *)
(* Time is kept per armed timer (tasks[i].elapsed, the time since the      *)
(* setTimeout call, not counted beyond Delay).  The logger's lines are     *)
(* kept per logical task: log for the start handler, tasks[i].lines for    *)
(* the handling of delivery i, serverLog for the 'Server' child logger.    *)
(*                                                                         *)
(* deliveries counts the events the client has emitted to the subscribed   *)
(* callback, argv holds the options of the command line (as given, then as *)
(* parsed), restarts counts the restarts of the process.                   *)
(***************************************************************************)
EXTENDS Integers, Sequences, FiniteSets, TLC

VARIABLES pc, sequelize, client, freeBalance, handlers, server, calls, tasks,
          transfers, log, serverLog, responses, argv, deliveries, restarts

vars == <<pc, sequelize, client, freeBalance, handlers, server, calls, tasks,
          transfers, log, serverLog, responses, argv, deliveries, restarts>>

\* ---------------------------------------------------------------- bounds
MaxEvents == 2
MaxRequests == 1
MaxRestarts == 1

\* ------------------------------------------------------ program constants
Delay == 1000
DefaultPort == 7600
EtherDecimals == 18
AddressZero == "0x0000000000000000000000000000000000000000"
TokenAsset == "0xTOKEN"
ReadyBody == "Ready to roll!"

\* Steps by which time is observed to advance.
TickSteps == {500, 999}

\* ----------------------------------------------------- digit arithmetic
RECURSIVE Zeros(_)
Zeros(n) == IF n = 0 THEN <<>> ELSE <<0>> \o Zeros(n - 1)

RECURSIVE StripLeadingZeros(_)
StripLeadingZeros(ds) ==
  IF Len(ds) > 1 /\ Head(ds) = 0 THEN StripLeadingZeros(Tail(ds)) ELSE ds

RECURSIVE StripTrailingZeros(_)
StripTrailingZeros(ds) ==
  IF Len(ds) > 1 /\ ds[Len(ds)] = 0
  THEN StripTrailingZeros(SubSeq(ds, 1, Len(ds) - 1))
  ELSE ds

RECURSIVE PadLeft(_, _)
PadLeft(ds, n) == IF Len(ds) >= n THEN ds ELSE PadLeft(<<0>> \o ds, n)

\* toBN(data.amount): the decimal string becomes a BigNumber, whose decimal
\* rendering has no leading zeros.
toBN(s) == StripLeadingZeros(s)

\* formatEther(wei): whole part, ".", the 18 fraction digits with trailing
\* zeros removed (at least one digit is kept).
formatEther(bn) ==
  LET p == PadLeft(bn, EtherDecimals + 1)
      n == Len(p)
  IN  [whole |-> StripLeadingZeros(SubSeq(p, 1, n - EtherDecimals)),
       fraction |-> StripTrailingZeros(SubSeq(p, n - EtherDecimals + 1, n))]

OneEther == <<1>> \o Zeros(18)
HalfEther == <<5>> \o Zeros(17)

\* ------------------------------------------------------------ the inputs
SenderA == "0xAAA"
SenderB == "0xBBB"

\* Payloads of CONDITIONAL_TRANSFER_UNLOCKED_EVENT the client may deliver.
InboundEvents ==
  { [paymentId |-> "p1", amount |-> OneEther, assetId |-> AddressZero,
     meta |-> [sender |-> SenderA]],
    [paymentId |-> "p2", amount |-> HalfEther, assetId |-> AddressZero,
     meta |-> [sender |-> SenderB]],
    [paymentId |-> "p3", amount |-> <<0, 7>>, assetId |-> TokenAsset,
     meta |-> [sender |-> SenderB]] }

NewPaymentIds == {"q1"}
Reasons == {"insufficient funds"}
Balances == {OneEther}
Methods == {"GET", "POST"}
Paths == {"/"}

NoAmount == [whole |-> <<>>, fraction |-> <<>>]

LogEntry(level, msg, amount, sender, detail) ==
  [level |-> level, msg |-> msg, amount |-> amount, sender |-> sender,
   detail |-> detail]

Info(msg) == LogEntry("info", msg, NoAmount, "-", "-")


\* ---------------------------------------------------------- command line
\* The options the builder declares.
OptionNames ==
  {"mnemonic", "ethereum", "connext-messaging", "connext-node",
   "postgres-host", "postgres-port", "postgres-username",
   "postgres-password", "postgres-database", "port"}

\* Variant: postgres-database is not demanded.
RequiredOptionsShort == {"mnemonic", "ethereum", "connext-node"}

\* demandOption([...]).
RequiredOptions ==
  {"mnemonic", "ethereum", "connext-node", "postgres-database"}

DefaultPostgresPort == 5432

\* The options declared with a default.
OptionDefaults ==
  [o \in {"postgres-port", "port"} |->
     IF o = "port" THEN DefaultPort ELSE DefaultPostgresPort]

\* A value given on the command line: a number for the two number options.
GivenPort == 8080
GivenPostgresPort == 6543
Given(o) ==
  IF o = "port" THEN GivenPort
  ELSE IF o = "postgres-port" THEN GivenPostgresPort
  ELSE "given"

FullCommandLine == [o \in OptionNames |-> Given(o)]
RequiredOnlyCommandLine == [o \in RequiredOptions |-> Given(o)]

\* The command lines tried: every option given, exactly one option left
\* out, only the demanded options given.
CommandLines ==
  {FullCommandLine, RequiredOnlyCommandLine}
    \cup {[o \in OptionNames \ {x} |-> Given(o)] : x \in OptionNames}

\* What yargs hands to the handler: the given options, and the default of
\* each option that has one and was not given.
ParsedArgv(given) ==
  [o \in DOMAIN given \cup DOMAIN OptionDefaults |->
     IF o \in DOMAIN given THEN given[o] ELSE OptionDefaults[o]]

\* --------------------------------------------------------- initial state
\* The handler is entered with the options of a valid command line.
Init ==
  /\ pc = "start"
  /\ sequelize = "none"
  /\ client = "none"
  /\ freeBalance = "none"
  /\ handlers = 0
  /\ server = "none"
  /\ calls = <<>>
  /\ tasks = <<>>
  /\ transfers = <<>>
  /\ log = <<>>
  /\ serverLog = <<>>
  /\ responses = <<>>
  /\ argv = ParsedArgv(RequiredOnlyCommandLine)
  /\ deliveries = 0
  /\ restarts = 0

\* The process is started with some command line, not yet parsed.
CliInit ==
  /\ pc = "cli"
  /\ sequelize = "none"
  /\ client = "none"
  /\ freeBalance = "none"
  /\ handlers = 0
  /\ server = "none"
  /\ calls = <<>>
  /\ tasks = <<>>
  /\ transfers = <<>>
  /\ log = <<>>
  /\ serverLog = <<>>
  /\ responses = <<>>
  /\ argv \in CommandLines
  /\ deliveries = 0
  /\ restarts = 0

\* yargs checks the demanded options, fills in the defaults and only then
\* calls the handler; a command line without a demanded option is rejected.
ParseArgs ==
  /\ pc = "cli"
  /\ IF RequiredOptions \subseteq DOMAIN argv
     THEN pc' = "start" /\ argv' = ParsedArgv(argv)
     ELSE pc' = "rejected" /\ argv' = argv
  /\ UNCHANGED <<sequelize, client, freeBalance, handlers, server, calls,
                 tasks, transfers, log, serverLog, responses, deliveries,
                 restarts>>

\* ------------------------------------------------------ startup sequence
\* Variant: createStateChannel is called without awaiting database.connect.
StartHandlerNoAwait ==
  /\ pc = "start"
  /\ pc' = "await_channel"
  /\ log' = log \o <<Info("Starting up"), Info("Connect to database"),
                     Info("Create state channel")>>
  /\ calls' = calls \o <<"database.connect", "createStateChannel">>
  /\ UNCHANGED <<freeBalance, sequelize, client, handlers, server, tasks,
                 transfers, serverLog, responses,
                 argv, deliveries, restarts>>

\* handler entry up to the first await: database.connect is called.
StartHandler ==
  /\ pc = "start"
  /\ pc' = "await_connect"
  /\ log' = log \o <<Info("Starting up"), Info("Connect to database")>>
  /\ calls' = Append(calls, "database.connect")
  /\ UNCHANGED <<freeBalance, sequelize, client, handlers, server, tasks,
                 transfers, serverLog, responses,
                 argv, deliveries, restarts>>

\* database.connect resolves; the handler goes on to createStateChannel.
DbConnected ==
  /\ pc = "await_connect"
  /\ sequelize' = "connected"
  /\ pc' = "await_channel"
  /\ log' = log \o <<Info("Connected to database"),
                     Info("Create state channel")>>
  /\ calls' = Append(calls, "createStateChannel")
  /\ UNCHANGED <<freeBalance, client, handlers, server, tasks, transfers,
                 serverLog, responses,
                 argv, deliveries, restarts>>

\* Variant: the connection error is swallowed and the handler goes on.
DbFailedSwallowed ==
  /\ pc = "await_connect"
  /\ sequelize' = "error"
  /\ pc' = "await_channel"
  /\ calls' = Append(calls, "createStateChannel")
  /\ UNCHANGED <<freeBalance, client, handlers, server, tasks, transfers,
                 log, serverLog, responses,
                 argv, deliveries, restarts>>

\* database.connect rejects: the await throws out of the handler.
DbFailed ==
  /\ pc = "await_connect"
  /\ sequelize' = "error"
  /\ pc' = "failed_connect"
  /\ UNCHANGED <<freeBalance, client, handlers, server, calls, tasks,
                 transfers, log, serverLog, responses,
                 argv, deliveries, restarts>>

\* createStateChannel resolves; the handler goes on to getFreeBalance.
ChannelCreated ==
  /\ pc = "await_channel"
  /\ client' = "created"
  /\ pc' = "await_balance"
  /\ log' = Append(log, Info("Created state channel"))
  /\ calls' = Append(calls, "getFreeBalance")
  /\ UNCHANGED <<freeBalance, sequelize, handlers, server, tasks, transfers,
                 serverLog, responses,
                 argv, deliveries, restarts>>

\* Variant: a failed construction is attempted again.
ChannelFailedRetried ==
  /\ pc = "await_channel"
  /\ client' = "error"
  /\ pc' = "await_channel"
  /\ calls' = Append(calls, "createStateChannel")
  /\ UNCHANGED <<freeBalance, sequelize, handlers, server, tasks, transfers,
                 log, serverLog, responses,
                 argv, deliveries, restarts>>

\* createStateChannel rejects: the await throws out of the handler.
ChannelFailed ==
  /\ pc = "await_channel"
  /\ client' = "error"
  /\ pc' = "failed_channel"
  /\ UNCHANGED <<freeBalance, sequelize, handlers, server, calls, tasks,
                 transfers, log, serverLog, responses,
                 argv, deliveries, restarts>>

\* Variant: the subscription is left out, the server is started all the same.
BalanceObtainedUnsubscribed(balance) ==
  /\ pc = "await_balance"
  /\ freeBalance' = "known"
  /\ log' = log \o
       <<LogEntry("info", "Channel free balance", formatEther(balance),
                  "-", "-"),
         Info("Signer address"), Info("Free balance address"), Info("xpub"),
         Info("Waiting to receive payments...")>>
  /\ serverLog' = Append(serverLog, LogEntry("info", "Start at port",
                                             NoAmount, "-", argv["port"]))
  /\ server' = "created"
  /\ calls' = calls \o <<"server.listen">>
  /\ pc' = "await_listen"
  /\ UNCHANGED <<sequelize, client, handlers, tasks, transfers, responses,
                 argv, deliveries, restarts>>

\* getFreeBalance resolves with an entry for client.freeBalanceAddress: the
\* rest of the handler runs (subscription, express app, server.listen).
BalanceObtained(balance) ==
  /\ pc = "await_balance"
  /\ freeBalance' = "known"
  /\ log' = log \o
       <<LogEntry("info", "Channel free balance", formatEther(balance),
                  "-", "-"),
         Info("Signer address"), Info("Free balance address"), Info("xpub"),
         Info("Waiting to receive payments...")>>
  /\ handlers' = handlers + 1
  /\ serverLog' = Append(serverLog, LogEntry("info", "Start at port",
                                             NoAmount, "-", argv["port"]))
  /\ server' = "created"
  /\ calls' = calls \o <<"client.on", "server.listen">>
  /\ pc' = "await_listen"
  /\ UNCHANGED <<sequelize, client, tasks, transfers, responses,
                 argv, deliveries, restarts>>

\* Variant: the failed balance query is caught and the handler goes on.
BalanceFailedIgnored ==
  /\ pc = "await_balance"
  /\ freeBalance' = "error"
  /\ handlers' = handlers + 1
  /\ serverLog' = Append(serverLog, LogEntry("info", "Start at port",
                                             NoAmount, "-", argv["port"]))
  /\ server' = "created"
  /\ calls' = calls \o <<"client.on", "server.listen">>
  /\ pc' = "await_listen"
  /\ UNCHANGED <<sequelize, client, tasks, transfers, log, responses, argv,
                 deliveries, restarts>>

\* getFreeBalance rejects, or resolves without an entry for the address so
\* that formatEther(undefined) throws: the handler is left before client.on.
BalanceFailed ==
  /\ pc = "await_balance"
  /\ freeBalance' = "error"
  /\ pc' = "failed_balance"
  /\ UNCHANGED <<sequelize, client, handlers, server, calls, tasks,
                 transfers, log, serverLog, responses,
                 argv, deliveries, restarts>>

\* the 'listening' callback of server.listen.
ListenStarted ==
  /\ pc = "await_listen"
  /\ server' = "listening"
  /\ pc' = "listening"
  /\ serverLog' = Append(serverLog, LogEntry("info", "Started at port",
                                             NoAmount, "-", argv["port"]))
  /\ UNCHANGED <<freeBalance, sequelize, client, handlers, calls, tasks, transfers, log,
                 responses,
                 argv, deliveries, restarts>>

\* server.listen cannot bind: the 'error' event has no listener and ends
\* the process, subscription included.
ListenFailed ==
  /\ pc = "await_listen"
  /\ server' = "none"
  /\ handlers' = 0
  /\ pc' = "crashed"
  /\ UNCHANGED <<freeBalance, sequelize, client, calls, tasks, transfers, log, serverLog,
                 responses,
                 argv, deliveries, restarts>>

\* ------------------------------------------------------- echo responder
\* Variant: the inbound asset is passed on instead of AddressZero.
TransferRequestSameAsset(data) ==
  [amount |-> toBN(data.amount),
   recipient |-> data.meta.sender,
   assetId |-> data.assetId]

\* The request passed to client.transfer for an inbound payload.
TransferRequest(data) ==
  [amount |-> toBN(data.amount),
   recipient |-> data.meta.sender,
   assetId |-> AddressZero]

\* Variant: a payment identifier that was seen before is not echoed again.
DeliverOncePerPayment(data) ==
  /\ pc = "listening"
  /\ handlers > 0
  /\ Len(tasks) < MaxEvents
  /\ deliveries < MaxEvents
  /\ deliveries' = deliveries + 1
  /\ tasks' =
       IF \E i \in 1..Len(tasks) : tasks[i].data.paymentId = data.paymentId
       THEN tasks
       ELSE Append(tasks,
              [data |-> data,
               amount |-> toBN(data.amount),
               formattedAmount |-> formatEther(toBN(data.amount)),
               elapsed |-> 0,
               state |-> "scheduled",
               result |-> "-",
               lines |-> <<LogEntry("info", "Received payment",
                                    formatEther(toBN(data.amount)),
                                    data.meta.sender, data.paymentId)>>])
  /\ UNCHANGED <<freeBalance, pc, sequelize, client, handlers, server, calls,
                 transfers, log, serverLog, responses, argv, restarts>>

\* The subscribed callback: log the payment and arm the timer.
Deliver(data) ==
  /\ pc = "listening"
  /\ handlers > 0
  /\ Len(tasks) < MaxEvents
  /\ tasks' = Append(tasks,
       [data |-> data,
        amount |-> toBN(data.amount),
        formattedAmount |-> formatEther(toBN(data.amount)),
        elapsed |-> 0,
        state |-> "scheduled",
        result |-> "-",
        lines |-> <<LogEntry("info", "Received payment",
                             formatEther(toBN(data.amount)),
                             data.meta.sender, data.paymentId)>>])
  /\ deliveries' = deliveries + 1
  /\ UNCHANGED <<freeBalance, pc, sequelize, client, handlers, server, calls, transfers,
                 log, serverLog, responses, argv, restarts>>

\* Variant: the timer is armed without a delay.
TimerDueAtOnce(i) == tasks[i].elapsed >= 0

\* When the runtime may run the timer callback of task i.
TimerDue(i) == tasks[i].elapsed >= Delay

\* Variant: timer callbacks run in the order in which the timers were armed.
TimerFiresInOrder(i) ==
  /\ pc = "listening"
  /\ i \in 1..Len(tasks)
  /\ tasks[i].state = "scheduled"
  /\ tasks[i].elapsed >= Delay
  /\ \A j \in 1..(i - 1) : tasks[j].state # "scheduled"
  /\ transfers' = Append(transfers,
       [task |-> i, elapsed |-> tasks[i].elapsed,
        request |-> [amount |-> toBN(tasks[i].data.amount),
                     recipient |-> tasks[i].data.meta.sender,
                     assetId |-> AddressZero]])
  /\ tasks' = [tasks EXCEPT
       ![i].state = "awaiting",
       ![i].lines = Append(@, LogEntry("info", "Send back",
                                       tasks[i].formattedAmount,
                                       tasks[i].data.meta.sender, "-"))]
  /\ UNCHANGED <<freeBalance, pc, sequelize, client, handlers, server, calls,
                 log, serverLog, responses, argv, deliveries, restarts>>

\* Variant: transfers are serialised, a callback waits for the one in flight.
TimerFiresSerial(i) ==
  /\ pc = "listening"
  /\ i \in 1..Len(tasks)
  /\ tasks[i].state = "scheduled"
  /\ tasks[i].elapsed >= Delay
  /\ \A j \in 1..Len(tasks) : tasks[j].state # "awaiting"
  /\ transfers' = Append(transfers,
       [task |-> i, elapsed |-> tasks[i].elapsed,
        request |-> [amount |-> toBN(tasks[i].data.amount),
                     recipient |-> tasks[i].data.meta.sender,
                     assetId |-> AddressZero]])
  /\ tasks' = [tasks EXCEPT
       ![i].state = "awaiting",
       ![i].lines = Append(@, LogEntry("info", "Send back",
                                       tasks[i].formattedAmount,
                                       tasks[i].data.meta.sender, "-"))]
  /\ UNCHANGED <<freeBalance, pc, sequelize, client, handlers, server, calls,
                 log, serverLog, responses,
                 argv, deliveries, restarts>>

\* The timer callback up to its await: log, then call client.transfer.
\* The runtime documents no order among due timers, so any due one may run.
TimerFires(i) ==
  /\ pc = "listening"
  /\ i \in 1..Len(tasks)
  /\ tasks[i].state = "scheduled"
  /\ TimerDue(i)
  /\ transfers' = Append(transfers,
       [task |-> i, elapsed |-> tasks[i].elapsed,
        request |-> TransferRequest(tasks[i].data)])
  /\ tasks' = [tasks EXCEPT
       ![i].state = "awaiting",
       ![i].lines = Append(@, LogEntry("info", "Send back",
                                       tasks[i].formattedAmount,
                                       tasks[i].data.meta.sender, "-"))]
  /\ UNCHANGED <<freeBalance, pc, sequelize, client, handlers, server, calls, log,
                 serverLog, responses,
                 argv, deliveries, restarts>>

\* client.transfer resolves: the success line is logged.
TransferResolved(i, paymentId) ==
  /\ pc = "listening"
  /\ i \in 1..Len(tasks)
  /\ tasks[i].state = "awaiting"
  /\ tasks' = [tasks EXCEPT
       ![i].state = "sent",
       ![i].result = paymentId,
       ![i].lines = Append(@, LogEntry("info", "sent back",
                                       tasks[i].formattedAmount,
                                       tasks[i].data.meta.sender, paymentId))]
  /\ UNCHANGED <<freeBalance, pc, sequelize, client, handlers, server, calls, transfers,
                 log, serverLog, responses,
                 argv, deliveries, restarts>>

\* Variant: the rejection is not caught and ends the process.
TransferRejectedUncaught(i, reason) ==
  /\ pc = "listening"
  /\ i \in 1..Len(tasks)
  /\ tasks[i].state = "awaiting"
  /\ tasks' = [tasks EXCEPT ![i].state = "failed", ![i].result = reason]
  /\ pc' = "crashed"
  /\ handlers' = 0
  /\ server' = "none"
  /\ UNCHANGED <<freeBalance, sequelize, client, calls, transfers, log,
                 serverLog, responses,
                 argv, deliveries, restarts>>

\* Variant: the catch block submits the transfer again.
TransferRejectedRetried(i, reason) ==
  /\ pc = "listening"
  /\ i \in 1..Len(tasks)
  /\ tasks[i].state = "awaiting"
  /\ transfers' = Append(transfers,
       [task |-> i, elapsed |-> tasks[i].elapsed,
        request |-> [amount |-> toBN(tasks[i].data.amount),
                     recipient |-> tasks[i].data.meta.sender,
                     assetId |-> AddressZero]])
  /\ tasks' = [tasks EXCEPT
       ![i].result = reason,
       ![i].lines = Append(@, LogEntry("error", "Failed to send payment back",
                                       NoAmount, tasks[i].data.meta.sender,
                                       reason))]
  /\ UNCHANGED <<freeBalance, pc, sequelize, client, handlers, server, calls,
                 log, serverLog, responses,
                 argv, deliveries, restarts>>

\* Variant: a rejection clears the timers that are still armed.
TransferRejectedCancelsArmed(i, reason) ==
  /\ pc = "listening"
  /\ i \in 1..Len(tasks)
  /\ tasks[i].state = "awaiting"
  /\ tasks' = [j \in 1..Len(tasks) |->
       IF j = i
       THEN [tasks[j] EXCEPT
               !.state = "failed",
               !.result = reason,
               !.lines = Append(@, LogEntry("error",
                                  "Failed to send payment back", NoAmount,
                                  tasks[j].data.meta.sender, reason))]
       ELSE IF tasks[j].state = "scheduled"
            THEN [tasks[j] EXCEPT !.state = "cancelled"]
            ELSE tasks[j]]
  /\ UNCHANGED <<freeBalance, pc, sequelize, client, handlers, server, calls,
                 transfers, log, serverLog, responses,
                 argv, deliveries, restarts>>

\* client.transfer rejects: the catch block logs the reason, nothing else.
TransferRejected(i, reason) ==
  /\ pc = "listening"
  /\ i \in 1..Len(tasks)
  /\ tasks[i].state = "awaiting"
  /\ tasks' = [tasks EXCEPT
       ![i].state = "failed",
       ![i].result = reason,
       ![i].lines = Append(@, LogEntry("error", "Failed to send payment back",
                                       NoAmount, tasks[i].data.meta.sender,
                                       reason))]
  /\ UNCHANGED <<freeBalance, pc, sequelize, client, handlers, server, calls, transfers,
                 log, serverLog, responses,
                 argv, deliveries, restarts>>

Min(a, b) == IF a <= b THEN a ELSE b

\* Variant: a transfer in flight is given up as time passes.
TickWithDeadline(d) ==
  /\ \E i \in 1..Len(tasks) :
       \/ tasks[i].state = "scheduled" /\ tasks[i].elapsed < Delay
       \/ tasks[i].state = "awaiting"
  /\ tasks' = [i \in 1..Len(tasks) |->
                 IF tasks[i].state = "scheduled"
                 THEN [tasks[i] EXCEPT !.elapsed = Min(@ + d, Delay)]
                 ELSE IF tasks[i].state = "awaiting"
                 THEN [tasks[i] EXCEPT
                         !.state = "failed",
                         !.result = "timeout",
                         !.lines = Append(@, LogEntry("error",
                                     "Failed to send payment back", NoAmount,
                                     tasks[i].data.meta.sender, "timeout"))]
                 ELSE tasks[i]]
  /\ UNCHANGED <<freeBalance, pc, sequelize, client, handlers, server, calls,
                 transfers, log, serverLog, responses, argv, deliveries,
                 restarts>>

\* Time passes for every armed timer.
Tick(d) ==
  /\ \E i \in 1..Len(tasks) :
       tasks[i].state = "scheduled" /\ tasks[i].elapsed < Delay
  /\ tasks' = [i \in 1..Len(tasks) |->
                 IF tasks[i].state = "scheduled"
                 THEN [tasks[i] EXCEPT !.elapsed = Min(@ + d, Delay)]
                 ELSE tasks[i]]
  /\ UNCHANGED <<freeBalance, pc, sequelize, client, handlers, server, calls, transfers,
                 log, serverLog, responses,
                 argv, deliveries, restarts>>

\* -------------------------------------------------------- status server
\* The express app: one GET route on "/", anything else falls through.
Respond(method, path) ==
  IF method = "GET" /\ path = "/"
  THEN [method |-> method, path |-> path, status |-> 200, body |-> ReadyBody]
  ELSE [method |-> method, path |-> path, status |-> 404, body |-> "Cannot"]

\* Variant: the route answers 503 while a transfer is in flight.
HttpRequestBusy(method, path) ==
  /\ Len(responses) < MaxRequests
  /\ IF server = "listening"
     THEN /\ responses' = Append(responses,
               IF \E i \in 1..Len(tasks) : tasks[i].state = "awaiting"
               THEN [method |-> method, path |-> path, status |-> 503,
                     body |-> "busy"]
               ELSE Respond(method, path))
          /\ serverLog' = Append(serverLog,
               LogEntry("debug", "access", NoAmount, "-", 0))
     ELSE /\ responses' = Append(responses, [method |-> method, path |-> path,
                                             status |-> 0, body |-> "refused"])
          /\ serverLog' = serverLog
  /\ UNCHANGED <<freeBalance, pc, sequelize, client, handlers, server, calls,
                 tasks, transfers, log,
                 argv, deliveries, restarts>>

\* A request from outside: answered by the app once the server listens
\* (morgan writes the access line to serverLogger.debug), refused otherwise.
HttpRequest(method, path) ==
  /\ Len(responses) < MaxRequests
  /\ IF server = "listening"
     THEN /\ responses' = Append(responses, Respond(method, path))
          /\ serverLog' = Append(serverLog,
               LogEntry("debug", "access", NoAmount, "-",
                        Respond(method, path).status))
     ELSE /\ responses' = Append(responses, [method |-> method, path |-> path,
                                             status |-> 0, body |-> "refused"])
          /\ serverLog' = serverLog
  /\ UNCHANGED <<freeBalance, pc, sequelize, client, handlers, server, calls, tasks,
                 transfers, log,
                 argv, deliveries, restarts>>

\* -------------------------------------------------------------- restart
\* Variant: armed timers are persisted and armed again by the new process.
RestartKeepsTimers ==
  /\ restarts < MaxRestarts
  /\ pc \notin {"cli", "rejected", "start"}
  /\ restarts' = restarts + 1
  /\ pc' = "start"
  /\ sequelize' = "none"
  /\ client' = "none"
  /\ freeBalance' = "none"
  /\ handlers' = 0
  /\ server' = "none"
  /\ calls' = <<>>
  /\ log' = <<>>
  /\ serverLog' = <<>>
  /\ tasks' = [i \in 1..Len(tasks) |->
                 IF tasks[i].state = "awaiting"
                 THEN [tasks[i] EXCEPT !.state = "orphaned"]
                 ELSE tasks[i]]
  /\ UNCHANGED <<transfers, responses, argv, deliveries>>

\* The process is stopped and started again with the same command line.
\* Timers and closures live in the memory of the old process only: an armed
\* timer is gone ("dropped"), the continuation of a transfer in flight is
\* gone ("orphaned").  The handler starts from its first line and reads
\* nothing back; log and serverLog are the output of the running process.
Restart ==
  /\ restarts < MaxRestarts
  /\ pc \notin {"cli", "rejected", "start"}
  /\ restarts' = restarts + 1
  /\ pc' = "start"
  /\ sequelize' = "none"
  /\ client' = "none"
  /\ freeBalance' = "none"
  /\ handlers' = 0
  /\ server' = "none"
  /\ calls' = <<>>
  /\ log' = <<>>
  /\ serverLog' = <<>>
  /\ tasks' = [i \in 1..Len(tasks) |->
                 IF tasks[i].state = "scheduled"
                 THEN [tasks[i] EXCEPT !.state = "dropped"]
                 ELSE IF tasks[i].state = "awaiting"
                 THEN [tasks[i] EXCEPT !.state = "orphaned"]
                 ELSE tasks[i]]
  /\ UNCHANGED <<transfers, responses, argv, deliveries>>

\* --------------------------------------------------------- specification
DeliverSome == \E data \in InboundEvents : Deliver(data)
FireSome == \E i \in 1..MaxEvents : TimerFires(i)
ResolveSome == \E i \in 1..MaxEvents, p \in NewPaymentIds : TransferResolved(i, p)
RejectSome == \E i \in 1..MaxEvents, r \in Reasons : TransferRejected(i, r)
TickSome == \E d \in TickSteps : Tick(d)
RequestSome == \E m \in Methods, p \in Paths : HttpRequest(m, p)
BalanceSome == \E b \in Balances : BalanceObtained(b)

Next ==
  \/ StartHandler
  \/ DbConnected
  \/ DbFailed
  \/ ChannelCreated
  \/ ChannelFailed
  \/ BalanceSome
  \/ BalanceFailed
  \/ ListenStarted
  \/ ListenFailed
  \/ DeliverSome
  \/ FireSome
  \/ ResolveSome
  \/ RejectSome
  \/ TickSome
  \/ RequestSome

Spec == Init /\ [][Next]_vars

\* The run from the command line on.
CliNext ==
  \/ ParseArgs
  \/ Next

CliSpec == CliInit /\ [][CliNext]_vars

\* The run of a process that may be restarted.  No status request is made
\* in these runs: a request reads and writes nothing of the echo tasks.
RestartNext ==
  \/ Restart
  \/ StartHandler
  \/ DbConnected
  \/ DbFailed
  \/ ChannelCreated
  \/ ChannelFailed
  \/ BalanceSome
  \/ BalanceFailed
  \/ ListenStarted
  \/ ListenFailed
  \/ DeliverSome
  \/ FireSome
  \/ ResolveSome
  \/ RejectSome
  \/ TickSome

RestartSpec == Init /\ [][RestartNext]_vars

\* The runtime keeps time moving and runs every due timer callback.
FairSpec ==
  /\ Spec
  /\ WF_vars(TickSome)
  /\ \A i \in 1..MaxEvents : WF_vars(TimerFires(i))

TypeOK ==
  /\ pc \in {"cli", "rejected", "start", "await_connect", "failed_connect", "await_channel",
             "failed_channel", "await_balance", "failed_balance",
             "await_listen", "listening", "crashed"}
  /\ sequelize \in {"none", "connected", "error"}
  /\ client \in {"none", "created", "error"}
  /\ freeBalance \in {"none", "known", "error"}
  /\ handlers \in 0..1
  /\ server \in {"none", "created", "listening"}
  /\ Len(tasks) <= MaxEvents
  /\ Len(transfers) <= MaxEvents
  /\ Len(responses) <= MaxRequests

\* ================================================================ claims
Max(a, b) == IF a >= b THEN a ELSE b

\* Two digit sequences denote the same number.
SameNumber(a, b) ==
  PadLeft(a, Max(Len(a), Len(b))) = PadLeft(b, Max(Len(a), Len(b)))

TransfersOf(i) == {k \in 1..Len(transfers) : transfers[k].task = i}
Submitted(i) == TransfersOf(i) # {}
LinesWith(i, msg) ==
  {n \in 1..Len(tasks[i].lines) : tasks[i].lines[n].msg = msg}
StartupOrder ==
  <<"database.connect", "createStateChannel", "getFreeBalance", "client.on",
    "server.listen">>
CallCount(name) == Cardinality({n \in 1..Len(calls) : calls[n] = name})

\* C1: every delivery has at most one transfer request over the whole run
\* (also after its transfer failed), and a request submitted for a delivery
\* has the delivery's amount, its sender as recipient and the native asset.
C1_AtMostOneEchoPerDelivery ==
  /\ \A i \in 1..Len(tasks) : Cardinality(TransfersOf(i)) <= 1
  /\ Len(transfers) <= Len(tasks)
  /\ \A k \in 1..Len(transfers) :
       /\ transfers[k].task \in 1..Len(tasks)
       /\ SameNumber(transfers[k].request.amount,
                     tasks[transfers[k].task].data.amount)
       /\ transfers[k].request.recipient =
            tasks[transfers[k].task].data.meta.sender
       /\ transfers[k].request.assetId = AddressZero

\* C1 witness: the 1-ether payment of 0xAAA was echoed once, the echo failed
\* and another delivery has been echoed since.
C1_Witness ==
  \E i \in 1..Len(tasks) :
    /\ tasks[i].data.amount = OneEther
    /\ tasks[i].data.meta.sender = SenderA
    /\ tasks[i].state = "failed"
    /\ Cardinality(TransfersOf(i)) = 1
    /\ \E k \in TransfersOf(i) :
         /\ k < Len(transfers)
         /\ transfers[k].request =
              [amount |-> OneEther, recipient |-> SenderA,
               assetId |-> AddressZero]

\* C2: a transfer is never submitted before Delay has elapsed since its
\* delivery, and the success (failure) line of a delivery is in the log only
\* once its transfer has resolved (rejected), carrying the new payment
\* identifier (the reason); it follows the "Send back" line.
C2_DelayThenTransferThenLog ==
  /\ \A k \in 1..Len(transfers) : transfers[k].elapsed >= Delay
  /\ \A i \in 1..Len(tasks) :
       /\ tasks[i].state = "scheduled" => ~Submitted(i)
       /\ tasks[i].state = "scheduled" =>
            LinesWith(i, "Send back") = {}
       /\ tasks[i].state \in {"scheduled", "awaiting"} =>
            /\ LinesWith(i, "sent back") = {}
            /\ LinesWith(i, "Failed to send payment back") = {}
       /\ \A n \in LinesWith(i, "sent back") :
            /\ tasks[i].state = "sent"
            /\ tasks[i].lines[n].detail = tasks[i].result
            /\ tasks[i].result \in NewPaymentIds
            /\ Submitted(i)
            /\ \E m \in LinesWith(i, "Send back") : m < n
       /\ \A n \in LinesWith(i, "Failed to send payment back") :
            /\ tasks[i].state = "failed"
            /\ tasks[i].lines[n].detail = tasks[i].result
            /\ tasks[i].result \in Reasons
            /\ Submitted(i)
            /\ \E m \in LinesWith(i, "Send back") : m < n

\* C2 witness: one delivery is 999 units old and not yet submitted while
\* another has been submitted, resolved and logged.
C2_Witness ==
  \E i, j \in 1..Len(tasks) :
    /\ tasks[i].state = "scheduled"
    /\ tasks[i].elapsed = Delay - 1
    /\ tasks[j].state = "sent"
    /\ LinesWith(j, "sent back") # {}

\* C3: under fair timers every delivered event is eventually followed by
\* the submission of its transfer, whatever else is delivered or resolves.
C3_EveryDeliveryIsEchoed ==
  \A i \in 1..MaxEvents : (Len(tasks) >= i) ~> Submitted(i)

\* C3 witness: a second delivery was submitted while the first transfer
\* was still unresolved.
C3_Witness ==
  /\ Len(tasks) >= 2
  /\ tasks[1].state = "awaiting"
  /\ Submitted(1)
  /\ Submitted(2)

\* C4: the rejection of one delivery's transfer changes nothing of any other
\* delivery (its timer, its transfer in flight, its outcome) nor of the
\* submitted transfers, and every other delivery is still submitted.
C4_FailureIsolation ==
  /\ [][\A i \in 1..Len(tasks) :
          (tasks[i].state = "awaiting" /\ tasks'[i].state = "failed") =>
            /\ transfers' = transfers
            /\ Len(tasks') = Len(tasks)
            /\ \A j \in 1..Len(tasks) : j # i => tasks'[j] = tasks[j]]_vars
  /\ \A j \in 1..MaxEvents :
       (/\ Len(tasks) >= j
        /\ \E i \in 1..Len(tasks) : i # j /\ tasks[i].state = "failed")
         ~> Submitted(j)

\* C4 witness: two deliveries from distinct senders, the first one's
\* transfer rejected, the second one's submitted and resolved.
C4_Witness ==
  /\ Len(tasks) >= 2
  /\ tasks[1].data.meta.sender # tasks[2].data.meta.sender
  /\ tasks[1].state = "failed"
  /\ tasks[2].state = "sent"
  /\ Cardinality(TransfersOf(1)) = 1
  /\ Cardinality(TransfersOf(2)) = 1

\* C5: whenever a delivery's transfer has failed, its last log line is the
\* error line naming the sender and the reason, and the process is still
\* running with the subscription in place (so that further events are
\* delivered) and the server listening (so that requests are answered).
C5_FailureIsSwallowed ==
  \A i \in 1..Len(tasks) :
    tasks[i].state = "failed" =>
      /\ tasks[i].lines[Len(tasks[i].lines)] =
           LogEntry("error", "Failed to send payment back", NoAmount,
                    tasks[i].data.meta.sender, tasks[i].result)
      /\ pc = "listening"
      /\ handlers = 1
      /\ server = "listening"
      /\ Cardinality(TransfersOf(i)) = 1

\* C5 witness: a transfer has failed, a later timer is still armed and a
\* status request has been answered.
C5_Witness ==
  /\ \E i \in 1..Len(tasks) : tasks[i].state = "failed"
  /\ \E j \in 1..Len(tasks) : tasks[j].state = "scheduled"
  /\ \E k \in 1..Len(responses) : responses[k].status = 200

\* C6: once the database connection has failed, in that state and in every
\* later one the channel client is not constructed (createStateChannel is
\* not even called), no subscription is registered and no server started.
C6_NoClientAfterDbFailure ==
  /\ [](sequelize = "error" =>
          /\ client = "none"
          /\ calls = <<"database.connect">>
          /\ handlers = 0
          /\ server = "none"
          /\ tasks = <<>>
          /\ transfers = <<>>
          /\ \A k \in 1..Len(responses) : responses[k].status = 0)
  /\ [][sequelize = "error" => sequelize' = "error"]_vars

\* C6 witness: the connection failed and a status request was refused.
C6_Witness ==
  /\ sequelize = "error"
  /\ pc = "failed_connect"
  /\ Len(responses) > 0

\* C7: once the construction of the channel client has failed, no
\* subscription is registered, no transfer is submitted, no server is
\* started, and createStateChannel has been called once and is not called
\* again.
C7_NoRecoveryAfterChannelFailure ==
  /\ [](client = "error" =>
          /\ pc = "failed_channel"
          /\ CallCount("createStateChannel") = 1
          /\ calls = <<"database.connect", "createStateChannel">>
          /\ handlers = 0
          /\ server = "none"
          /\ tasks = <<>>
          /\ transfers = <<>>
          /\ \A k \in 1..Len(responses) : responses[k].status = 0)
  /\ [][client = "error" => client' = "error" /\ calls' = calls]_vars

\* C7 witness: the construction failed after a successful connection.
C7_Witness ==
  /\ client = "error"
  /\ sequelize = "connected"
  /\ Len(responses) > 0

\* C8: the external calls of the startup are made in the fixed order, and
\* each one only after the call before it has resolved successfully.
C8_StrictStartupOrder ==
  /\ Len(calls) <= Len(StartupOrder)
  /\ calls = SubSeq(StartupOrder, 1, Len(calls))
  /\ CallCount("createStateChannel") > 0 => sequelize = "connected"
  /\ CallCount("getFreeBalance") > 0 => client = "created"
  /\ CallCount("client.on") > 0 => client = "created" /\ sequelize = "connected"
  /\ CallCount("server.listen") > 0 => CallCount("client.on") = 1
  /\ handlers > 0 => CallCount("client.on") = 1
  /\ server # "none" => handlers = 1
  /\ pc = "await_connect" => calls = SubSeq(StartupOrder, 1, 1)
  /\ pc = "await_channel" => calls = SubSeq(StartupOrder, 1, 2)
  /\ pc \in {"failed_connect", "failed_channel"} =>
       handlers = 0 /\ server = "none" /\ Len(calls) <= 2

\* C8 witness: the startup ran to the end.
C8_Witness ==
  /\ pc = "listening"
  /\ calls = StartupOrder
  /\ server = "listening"

\* C9: once the server listens it keeps listening, and every GET / made
\* from then on is answered 200 "Ready to roll!", whatever the transfers do.
C9_StatusAlwaysReady ==
  [][server = "listening" =>
       /\ server' = "listening"
       /\ Len(responses') > Len(responses) =>
            LET r == responses'[Len(responses')] IN
              /\ r.status # 0
              /\ (r.method = "GET" /\ r.path = "/") =>
                   (r.status = 200 /\ r.body = ReadyBody)]_vars

\* C9 witness: GET / was answered while one transfer had failed and another
\* was unresolved.
C9_Witness ==
  /\ \E k \in 1..Len(responses) :
       responses[k] = [method |-> "GET", path |-> "/", status |-> 200,
                       body |-> ReadyBody]
  /\ \E i \in 1..Len(tasks) : tasks[i].state = "failed"
  /\ \E j \in 1..Len(tasks) : tasks[j].state = "awaiting"

\* C10 as stated: the outbound transfer carries the asset of the inbound
\* event (and its amount), also for a non-native inbound asset.
C10_Original ==
  \A k \in 1..Len(transfers) :
    /\ SameNumber(transfers[k].request.amount,
                  tasks[transfers[k].task].data.amount)
    /\ transfers[k].request.assetId = tasks[transfers[k].task].data.assetId

\* C10 amended: the outbound transfer carries the amount of the inbound
\* event and always the native asset, which is the inbound asset exactly
\* when the inbound asset is the native one.
C10_AmountKeptAssetNative ==
  \A k \in 1..Len(transfers) :
    /\ SameNumber(transfers[k].request.amount,
                  tasks[transfers[k].task].data.amount)
    /\ transfers[k].request.assetId = AddressZero
    /\ (transfers[k].request.assetId = tasks[transfers[k].task].data.assetId)
         <=> (tasks[transfers[k].task].data.assetId = AddressZero)

\* C10 witness: an inbound payment in a token, written with a leading zero,
\* was echoed.
C10_Witness ==
  \E k \in 1..Len(transfers) :
    /\ tasks[transfers[k].task].data.assetId = TokenAsset
    /\ tasks[transfers[k].task].data.amount = <<0, 7>>
    /\ transfers[k].request.amount = <<7>>

\* C11: every delivery is handled on its own: each one arms its own timer,
\* whatever payment identifiers were delivered before, and each one whose
\* timer has fired has exactly one transfer of its own.
C11_NoDeduplication ==
  /\ Len(tasks) = deliveries
  /\ \A i \in 1..Len(tasks) :
       /\ tasks[i].lines[1].detail = tasks[i].data.paymentId
       /\ tasks[i].state # "scheduled" => Cardinality(TransfersOf(i)) = 1
  /\ Len(transfers) =
       Cardinality({i \in 1..Len(tasks) : tasks[i].state # "scheduled"})

\* C11 witness: the same payment was delivered twice and two transfers were
\* submitted, one for each delivery.
C11_Witness ==
  /\ Len(tasks) >= 2
  /\ tasks[1].data = tasks[2].data
  /\ Cardinality(TransfersOf(1)) = 1
  /\ Cardinality(TransfersOf(2)) = 1
  /\ transfers[1].request = transfers[2].request

DemandedOptions ==
  {"mnemonic", "ethereum", "connext-node", "postgres-database"}
HasDemanded == DemandedOptions \subseteq DOMAIN argv

\* C12: a command line lacking mnemonic, ethereum, connext-node or
\* postgres-database is rejected and the handler never runs (no call, no
\* log line, no server); a command line is rejected for no other reason, so
\* the other options may be absent; the handler gets the given options
\* unchanged and 5432 / 7600 for an absent postgres-port / port.
C12_RequiredOptionsEnforced ==
  /\ [](~HasDemanded =>
          /\ pc \in {"cli", "rejected"}
          /\ calls = <<>>
          /\ log = <<>>
          /\ sequelize = "none"
          /\ client = "none"
          /\ handlers = 0
          /\ server = "none"
          /\ \A k \in 1..Len(responses) : responses[k].status = 0)
  /\ [](pc = "rejected" => ~HasDemanded)
  /\ [][pc = "rejected" => pc' = "rejected"]_vars
  /\ [][(pc = "cli" /\ pc' # "cli") =>
          /\ pc' = (IF HasDemanded
                    THEN "start" ELSE "rejected")
          /\ pc' = "start" =>
               /\ \A o \in DOMAIN argv : argv'[o] = argv[o]
               /\ DOMAIN argv' = DOMAIN argv \cup {"postgres-port", "port"}
               /\ "postgres-port" \notin DOMAIN argv =>
                    argv'["postgres-port"] = 5432
               /\ "port" \notin DOMAIN argv => argv'["port"] = 7600]_vars

\* C12 witness: the command line without postgres-database was rejected
\* and a status request made afterwards was refused.
C12_Witness ==
  /\ pc = "rejected"
  /\ DOMAIN argv = OptionNames \ {"postgres-database"}
  /\ Len(responses) > 0

InFlight == {i \in 1..Len(tasks) : tasks[i].state = "awaiting"}

\* C14: a transfer in flight excludes no other: whenever a delivery's timer
\* is due, its callback can run and submit its transfer, however many
\* transfers on the one client are unresolved at that moment.
C14_NoMutualExclusion ==
  \A i \in 1..Len(tasks) :
    (/\ pc = "listening"
     /\ tasks[i].state = "scheduled"
     /\ tasks[i].elapsed >= Delay
     /\ InFlight # {})
      => ENABLED TimerFires(i)

\* C14 witness: as many transfers are in flight at once as events were
\* delivered, and that is every event the bound allows.
C14_Witness ==
  /\ Len(tasks) = MaxEvents
  /\ Cardinality(InFlight) = Len(tasks)
  /\ Len(transfers) = Len(tasks)
  /\ Cardinality(InFlight) >= 2

\* C15: a restart drops every transfer that is scheduled but not yet
\* submitted, and leaves the submitted ones as they are; a dropped delivery
\* stays dropped for ever, gets no transfer and no further log line.  Only a
\* new delivery of the event, which is a new task, is echoed.
C15_RestartDropsPending ==
  /\ [](\A i \in 1..Len(tasks) :
          tasks[i].state = "dropped" =>
            /\ TransfersOf(i) = {}
            /\ Len(tasks[i].lines) = 1
            /\ restarts > 0)
  /\ [][\A i \in 1..Len(tasks) :
          tasks[i].state = "dropped" => tasks'[i] = tasks[i]]_vars
  /\ [][restarts' # restarts =>
          /\ transfers' = transfers
          /\ Len(tasks') = Len(tasks)
          /\ \A i \in 1..Len(tasks) :
               tasks[i].state = "scheduled" => tasks'[i].state = "dropped"]_vars
  /\ [][Len(transfers') > Len(transfers) =>
          /\ pc = "listening"
          /\ tasks[transfers'[Len(transfers')].task].state = "scheduled"]_vars

\* C15 witness: the echo of the first delivery was dropped by a restart
\* while its delay was running; the new process is listening, the event was
\* delivered again and only that second delivery has a transfer.
C15_Witness ==
  /\ restarts = 1
  /\ pc = "listening"
  /\ Len(tasks) >= 2
  /\ tasks[1].state = "dropped"
  /\ tasks[1].elapsed < Delay
  /\ tasks[2].data = tasks[1].data
  /\ tasks[2].state = "sent"
  /\ TransfersOf(1) = {}
  /\ Cardinality(TransfersOf(2)) = 1

\* C16: nothing but the answer of the external call ends a wait.  A transfer
\* in flight has no outcome and no result line, and leaves that state only
\* by the client resolving or rejecting it; meanwhile the server listens and
\* every other delivery is still submitted.  While database.connect or
\* createStateChannel is pending nothing is subscribed and no server is
\* started, and the handler moves on only when that call answers.
C16_NoTimeout ==
  /\ [](\A i \in InFlight :
          /\ tasks[i].result = "-"
          /\ Len(tasks[i].lines) = 2
          /\ server = "listening")
  /\ [][\A i \in InFlight :
          tasks'[i] # tasks[i] =>
            \/ tasks'[i].state = "sent" /\ tasks'[i].result \in NewPaymentIds
            \/ tasks'[i].state = "failed" /\ tasks'[i].result \in Reasons]_vars
  /\ \A j \in 1..MaxEvents :
       (Len(tasks) >= j /\ InFlight \ {j} # {}) ~> Submitted(j)
  /\ [](pc \in {"await_connect", "await_channel"} =>
          /\ handlers = 0
          /\ server = "none"
          /\ tasks = <<>>
          /\ Len(calls) = (IF pc = "await_connect" THEN 1 ELSE 2))
  /\ [][(pc = "await_connect" /\ pc' # pc) =>
          (sequelize = "none" /\ sequelize' \in {"connected", "error"})]_vars
  /\ [][(pc = "await_channel" /\ pc' # pc) =>
          (client = "none" /\ client' \in {"created", "error"})]_vars

\* C16 witness: the first transfer is still unresolved while a later
\* delivery has been submitted and resolved and a request been answered.
C16_Witness ==
  /\ Len(tasks) >= 2
  /\ tasks[1].state = "awaiting"
  /\ tasks[2].state = "sent"
  /\ transfers[1].task = 1
  /\ \E k \in 1..Len(responses) : responses[k].status = 200

\* C17: whenever the server listens, the database is connected, the client
\* constructed, the free balance obtained and the unlock subscription in
\* place; client.on is called at most once, and a registered subscription
\* goes away only with the process (the bind error of server.listen), never
\* once the server listens.
C17_ReadyImpliesArmed ==
  /\ [](server = "listening" =>
          /\ pc = "listening"
          /\ sequelize = "connected"
          /\ client = "created"
          /\ freeBalance = "known"
          /\ handlers = 1
          /\ calls = StartupOrder)
  /\ [](/\ handlers <= 1
        /\ CallCount("client.on") <= 1
        /\ handlers = 1 => CallCount("client.on") = 1)
  /\ [][handlers = 1 => (handlers' = 1 \/ pc' = "crashed")]_vars
  /\ [][server = "listening" => handlers' = 1]_vars

\* C17 witness: the server has answered a request and the responder, armed
\* since before the server listened, has echoed a payment.
C17_Witness ==
  /\ server = "listening"
  /\ handlers = 1
  /\ \E k \in 1..Len(responses) : responses[k].body = ReadyBody
  /\ \E i \in 1..Len(tasks) : tasks[i].state = "sent"

\* C18: the free-balance query blocks the startup: while it is pending, and
\* for ever once it has failed, the client is constructed but nothing is
\* subscribed, no server is started, no payment is echoed and no request is
\* answered; client.on and server.listen are never called.
C18_BalanceFailureAborts ==
  /\ [](pc = "await_balance" =>
          /\ client = "created"
          /\ handlers = 0
          /\ server = "none"
          /\ calls = SubSeq(StartupOrder, 1, 3))
  /\ [](freeBalance = "error" =>
          /\ pc = "failed_balance"
          /\ sequelize = "connected"
          /\ client = "created"
          /\ handlers = 0
          /\ server = "none"
          /\ calls = SubSeq(StartupOrder, 1, 3)
          /\ tasks = <<>>
          /\ transfers = <<>>
          /\ \A k \in 1..Len(responses) : responses[k].status = 0)
  /\ [][freeBalance = "error" =>
          (freeBalance' = "error" /\ pc' = pc /\ calls' = calls)]_vars

\* C18 witness: the balance query failed after the client was constructed
\* and a status request made afterwards was refused.
C18_Witness ==
  /\ freeBalance = "error"
  /\ client = "created"
  /\ pc = "failed_balance"
  /\ \E k \in 1..Len(responses) :
       responses[k].method = "GET" /\ responses[k].status = 0

====
